---- MODULE Spec2Model ----
(***************************************************************************)
(* A model of the bytecode interpreter of src/src/vm.rs: the register      *)
(* file, the flat memory, VM::new, VM::run's fetch/decode/execute/advance  *)
(* loop and VM::execute's instruction semantics.                           *)
(*                                                                         *)
(* Registers hold i32 values.  TLC's integers are 32 bits wide and TLC     *)
(* stops on overflow, so every arithmetic operator below is written so     *)
(* that no intermediate value leaves the i32 range.                        *)
(*                                                                         *)
(* A Rust panic ends the run: phase = "panicked", and panic holds the kind *)
(* of the panic (the panic message's category).                            *)
(***************************************************************************)
EXTENDS Integers, Sequences, FiniteSets, TLC

VARIABLES
    phase,            \* "new", "constructed", "fetch", "advance", "halted", "panicked"
    panic,            \* "none", or the kind of the panic that ended the run
    overflow_checks,  \* TRUE: built with overflow checks (debug); FALSE: wrapping (release)
    code,             \* the byte sequence handed to VM::new
    registers,        \* VM.registers: [i32; 13]
    memory,           \* VM.memory: Vec<u8>
    address,          \* run's local `address` of the current iteration
    bytecode,         \* run's local `bytecode` of the current iteration
    stdin,            \* the console input still to be read
    stdout            \* the writes made to the console output, oldest first

vars == <<phase, panic, overflow_checks, code, registers, memory, address,
          bytecode, stdin, stdout>>

(***************************************************************************)
(* Bounds of the model.                                                    *)
(***************************************************************************)
\* The capacity of the memory buffer (const MAX_MEMORY in VM::new, which is
\* 10_000_000 in the source), scaled down to six instruction records.
MAX_MEMORY == 72
\* The most writes to the console output a run of the model makes.
MaxOut == 2

(***************************************************************************)
(* Program constants.                                                      *)
(***************************************************************************)
NumRegisters == 13
RecordWidth == 12
MaxI32 == 2147483647
MinI32 == -MaxI32 - 1
\* Register::PC and Register::IO (tokenizer, not under src/).
PC == 12
IO == 0

(***************************************************************************)
(* i32 arithmetic.                                                         *)
(***************************************************************************)
AddOverflows(a, b) ==
    \/ b > 0 /\ a > MaxI32 - b
    \/ b < 0 /\ a < MinI32 - b

\* a + b modulo 2^32, as a signed value
WrapAdd(a, b) ==
    IF b > 0 /\ a > MaxI32 - b THEN (a + MinI32) + (b + MinI32)
    ELSE IF b < 0 /\ a < MinI32 - b THEN (a - MinI32) + (b - MinI32)
    ELSE a + b

SubOverflows(a, b) ==
    \/ b < 0 /\ a > MaxI32 + b
    \/ b > 0 /\ a < MinI32 + b

\* a - b modulo 2^32, as a signed value
WrapSub(a, b) ==
    IF b < 0 /\ a > MaxI32 + b THEN (a + MinI32) - (b - MinI32)
    ELSE IF b > 0 /\ a < MinI32 + b THEN (a - MinI32) - (b + MinI32)
    ELSE a - b

WrapNeg(a) == IF a = MinI32 THEN MinI32 ELSE -a

RECURSIVE MulNat(_, _)
\* a * n modulo 2^32 for n >= 0, by doubling
MulNat(a, n) ==
    IF n = 0 THEN 0
    ELSE LET h == MulNat(WrapAdd(a, a), n \div 2)
         IN  IF n % 2 = 1 THEN WrapAdd(h, a) ELSE h

\* a * b modulo 2^32, as a signed value
WrapMul(a, b) ==
    IF b >= 0 THEN MulNat(a, b)
    ELSE IF b = MinI32 THEN (IF a % 2 = 1 THEN MinI32 ELSE 0)
    ELSE WrapNeg(MulNat(a, -b))

MulOverflows(a, b) ==
    IF a = 0 \/ b = 0 \/ a = 1 \/ b = 1 THEN FALSE
    ELSE IF a = MinI32 \/ b = MinI32 THEN TRUE
    ELSE LET p == WrapMul(a, b)
             absa == IF a < 0 THEN -a ELSE a
             sb == IF a < 0 THEN -b ELSE b
         IN  ~(p % absa = 0 /\ p \div absa = sb)

\* a / b for b > 0, rounded down
TruncDivPos_Floored(a, b) == a \div b

\* a / b for b > 0, truncated toward zero
TruncDivPos(a, b) ==
    IF a < 0 /\ a % b # 0 THEN (a \div b) + 1 ELSE a \div b

\* a / b as Rust's i32 division computes it, for b # 0 and (a, b) # (MinI32, -1)
TruncDiv(a, b) ==
    IF b > 0 THEN TruncDivPos(a, b)
    ELSE IF b = MinI32 THEN (IF a = MinI32 THEN 1 ELSE 0)
    ELSE -TruncDivPos(a, -b)

(***************************************************************************)
(* Little-endian words (byteorder's LittleEndian).                         *)
(***************************************************************************)
\* i32::to_le_bytes: the four bytes of a signed word, lowest first
LeBytes(v) ==
    << v % 256, (v \div 256) % 256, (v \div 65536) % 256, (v \div 16777216) % 256 >>

\* read_i32::<LittleEndian> of four bytes
LeI32(b0, b1, b2, b3) ==
    b0 + 256 * b1 + 65536 * b2 + 16777216 * (IF b3 >= 128 THEN b3 - 256 ELSE b3)

\* read_u16 taking the first byte as the high one
LeU16_BigEndian(b0, b1) == b1 + 256 * b0

\* read_u16::<LittleEndian> of two bytes
LeU16(b0, b1) == b0 + 256 * b1

\* `x as u8` and `x as u16` of an i32
AsU8(x) == x % 256
AsU16(x) == x % 65536

(***************************************************************************)
(* Memory accesses.  mem is the Vec<u8> as a sequence: the byte at address *)
(* a is mem[a + 1].  An i32 cast `as usize` keeps a non-negative value and *)
(* turns a negative one into a value above every buffer length.            *)
(***************************************************************************)
NoPanic == "none"

\* &mut self.memory[a..] panics unless a <= len
SliceStartOk(mem, a) == a >= 0 /\ a <= Len(mem)

\* the bytes of mem[a..] a read or write of n bytes can use
Avail(mem, a) == Len(mem) - a

Fault(kind) == [panic |-> kind, value |-> 0]
Value(v) == [panic |-> NoPanic, value |-> v]

\* read_byte reading a signed byte (read_i8)
read_byte_Signed(mem, a) ==
    IF ~SliceStartOk(mem, a) THEN Fault("RangeStartOutOfBounds")
    ELSE IF Avail(mem, a) < 1 THEN Fault("UnwrapOnErr")
    ELSE Value(IF mem[a + 1] >= 128 THEN mem[a + 1] - 256 ELSE mem[a + 1])

\* Cursor::new(&mut self.memory[a..]).read_u8().unwrap()
read_byte(mem, a) ==
    IF ~SliceStartOk(mem, a) THEN Fault("RangeStartOutOfBounds")
    ELSE IF Avail(mem, a) < 1 THEN Fault("UnwrapOnErr")
    ELSE Value(mem[a + 1])

\* Cursor::new(&mut self.memory[a..]).read_u16::<LittleEndian>().unwrap()
read_word(mem, a) ==
    IF ~SliceStartOk(mem, a) THEN Fault("RangeStartOutOfBounds")
    ELSE IF Avail(mem, a) < 2 THEN Fault("UnwrapOnErr")
    ELSE Value(LeU16(mem[a + 1], mem[a + 2]))

ReadI32At(mem, a) == LeI32(mem[a + 1], mem[a + 2], mem[a + 3], mem[a + 4])

\* the three read_i32 of run's fetch
read_instruction(mem, a) ==
    IF ~SliceStartOk(mem, a) THEN Fault("RangeStartOutOfBounds")
    ELSE IF Avail(mem, a) < RecordWidth THEN Fault("UnwrapOnErr")
    ELSE Value(<< ReadI32At(mem, a), ReadI32At(mem, a + 4), ReadI32At(mem, a + 8) >>)

MemFault(kind) == [panic |-> kind, memory |-> << >>]

\* let mut memory = &mut self.memory[a..]; let _ = memory.write_u8(v);
\* the io::Error of a write that does not fit is dropped
write_byte(mem, a, v) ==
    IF ~SliceStartOk(mem, a) THEN MemFault("RangeStartOutOfBounds")
    ELSE IF Avail(mem, a) < 1 THEN [panic |-> NoPanic, memory |-> mem]
    ELSE [panic |-> NoPanic, memory |-> [mem EXCEPT ![a + 1] = v]]

\* write_u16 on a buffer that grows to take the bytes that do not fit
write_word_Growing(mem, a, v) ==
    IF ~SliceStartOk(mem, a) THEN MemFault("RangeStartOutOfBounds")
    ELSE IF Avail(mem, a) < 2
         THEN [panic |-> NoPanic,
               memory |-> SubSeq(mem, 1, a) \o << v % 256, v \div 256 >>]
    ELSE [panic |-> NoPanic,
          memory |-> [mem EXCEPT ![a + 1] = v % 256, ![a + 2] = v \div 256]]

\* let mut memory = &mut self.memory[a..]; let _ = memory.write_u16::<LittleEndian>(v);
\* Write for &mut [u8] copies the bytes that fit before write_all reports
\* the short write, and the io::Error is dropped
write_word(mem, a, v) ==
    IF ~SliceStartOk(mem, a) THEN MemFault("RangeStartOutOfBounds")
    ELSE IF Avail(mem, a) < 1 THEN [panic |-> NoPanic, memory |-> mem]
    ELSE IF Avail(mem, a) < 2
         THEN [panic |-> NoPanic, memory |-> [mem EXCEPT ![a + 1] = v % 256]]
    ELSE [panic |-> NoPanic,
          memory |-> [mem EXCEPT ![a + 1] = v % 256, ![a + 2] = v \div 256]]

(***************************************************************************)
(* The register file.                                                      *)
(***************************************************************************)
\* self.registers[x as usize] panics unless the index is below 13
ValidReg(x) == x >= 0 /\ x < NumRegisters

(***************************************************************************)
(* The decoder (assembler::Command::from_bytecode, not under src/): the    *)
(* opcode word names one instruction, in the order of execute's match;     *)
(* any other word is not an instruction.                                   *)
(***************************************************************************)
Instructions ==
    << "Add", "AddImmediate", "And", "Compare", "CompareZeroJump",
       "ConvertASCIIToInteger", "ConvertIntegerToASCII", "Divide",
       "GreaterThanZeroJump", "InputASCII", "InputInteger", "Jump",
       "JumpRelative", "LessThanZeroJump", "LoadAddress", "LoadByte",
       "LoadWord", "Move", "Multiply", "NonZeroJump", "Or", "OutputASCII",
       "OutputInteger", "StoreByte", "StoreWord", "Subtract", "End" >>

NotInstruction == "NotInstruction"

from_bytecode(bc) ==
    IF bc[1] >= 1 /\ bc[1] <= Len(Instructions) THEN Instructions[bc[1]]
    ELSE NotInstruction

\* the opcode word of an instruction
Opcode(name) == CHOOSE i \in 1..Len(Instructions) : Instructions[i] = name

(***************************************************************************)
(* Console text.  A character is its code point.                           *)
(***************************************************************************)
IsWhitespace(c) == c \in {9, 10, 11, 12, 13, 32}

RECURSIVE TrimStart(_)
TrimStart(s) ==
    IF s # << >> /\ IsWhitespace(Head(s)) THEN TrimStart(Tail(s)) ELSE s

RECURSIVE TrimEnd(_)
TrimEnd(s) ==
    IF s # << >> /\ IsWhitespace(s[Len(s)])
    THEN TrimEnd(SubSeq(s, 1, Len(s) - 1)) ELSE s

\* str::trim
trim(s) == TrimEnd(TrimStart(s))

ParseErr == [ok |-> FALSE, n |-> 0]

RECURSIVE ParseDigits(_, _, _)
\* i32::from_str's digit loop: checked_mul(10), then checked_add or checked_sub
ParseDigits(ds, acc, neg) ==
    IF ds = << >> THEN [ok |-> TRUE, n |-> acc]
    ELSE LET d == Head(ds) - 48
         IN  IF d < 0 \/ d > 9 THEN ParseErr
             ELSE IF neg
             THEN IF acc <= MinI32 \div 10 THEN ParseErr
                  ELSE IF acc * 10 < MinI32 + d THEN ParseErr
                  ELSE ParseDigits(Tail(ds), acc * 10 - d, neg)
             ELSE IF acc > MaxI32 \div 10 THEN ParseErr
                  ELSE IF acc * 10 > MaxI32 - d THEN ParseErr
                  ELSE ParseDigits(Tail(ds), acc * 10 + d, neg)

\* str::parse::<i32>
parse_i32(s) ==
    IF s = << >> THEN ParseErr
    ELSE LET signed == s[1] \in {43, 45}
             ds == IF signed THEN Tail(s) ELSE s
         IN  IF ds = << >> THEN ParseErr ELSE ParseDigits(ds, 0, s[1] = 45)

RECURSIVE DigitsNeg(_)
\* the decimal digits of -m, for m <= 0
DigitsNeg(m) ==
    LET d == (10 - (m % 10)) % 10
        q == (m + d) \div 10
    IN  IF q = 0 THEN << 48 + d >> ELSE Append(DigitsNeg(q), 48 + d)

\* Display for i32
format_i32(n) ==
    IF n < 0 THEN << 45 >> \o DigitsNeg(n) ELSE DigitsNeg(-n)

(***************************************************************************)
(* VM::execute.  Each instruction is an operator of the two operand words  *)
(* A = bytecode[1] and B = bytecode[2], giving the effect of the match arm *)
(* on the current state: the panic that ends it (if any), whether the run  *)
(* goes on, and the registers, memory and console after it.  The checks    *)
(* come in the order in which the arm evaluates them.                      *)
(***************************************************************************)
Same ==
    [panic |-> NoPanic, running |-> TRUE, registers |-> registers,
     memory |-> memory, stdin |-> stdin, stdout |-> stdout]

Abort(kind) == [Same EXCEPT !.panic = kind]

SetReg(r, v) == [Same EXCEPT !.registers = [registers EXCEPT ![r] = v]]

\* println!("error: {}", err): one line of diagnostic on the console
\* output ("error: ", the error's own text left out, and the line end)
DiagLine == << 101, 114, 114, 111, 114, 58, 32, 10 >>

Add(A, B) ==
    IF ~ValidReg(B) \/ ~ValidReg(A) THEN Abort("IndexOutOfBounds")
    ELSE IF overflow_checks /\ AddOverflows(registers[A], registers[B])
         THEN Abort("ArithmeticOverflow")
    ELSE SetReg(A, WrapAdd(registers[A], registers[B]))

AddImmediate(A, B) ==
    IF ~ValidReg(A) THEN Abort("IndexOutOfBounds")
    ELSE IF overflow_checks /\ AddOverflows(registers[A], B)
         THEN Abort("ArithmeticOverflow")
    ELSE SetReg(A, WrapAdd(registers[A], B))

And(A, B) ==
    IF ~ValidReg(A) \/ ~ValidReg(B) THEN Abort("IndexOutOfBounds")
    ELSE SetReg(A, IF registers[A] # 0 /\ registers[B] # 0 THEN 1 ELSE 0)

\* Compare by the sign of the 32-bit difference val1 - val2
CompareValue_OfWrappedDifference(val1, val2) ==
    LET d == WrapSub(val1, val2)
    IN  IF d < 0 THEN -1 ELSE IF d > 0 THEN 1 ELSE 0

\* the value Compare stores for val1, val2
CompareValue(val1, val2) ==
    IF val1 < val2 THEN -1 ELSE IF val1 > val2 THEN 1 ELSE 0

Compare(A, B) ==
    IF ~ValidReg(A) \/ ~ValidReg(B) THEN Abort("IndexOutOfBounds")
    ELSE SetReg(A, CompareValue(registers[A], registers[B]))

\* let address = address - 12; then the test of the register
JumpIf(A, B, taken) ==
    IF overflow_checks /\ SubOverflows(B, RecordWidth) THEN Abort("ArithmeticOverflow")
    ELSE IF ~ValidReg(A) THEN Abort("IndexOutOfBounds")
    ELSE IF taken THEN SetReg(PC, WrapSub(B, RecordWidth))
    ELSE Same

CompareZeroJump(A, B) == JumpIf(A, B, ValidReg(A) /\ registers[A] = 0)

\* ConvertASCIIToInteger storing IO - '0' whatever its value
ConvertASCIIToInteger_Propagating ==
    IF overflow_checks /\ SubOverflows(registers[IO], 48) THEN Abort("ArithmeticOverflow")
    ELSE SetReg(IO, WrapSub(registers[IO], 48))

ConvertASCIIToInteger ==
    IF overflow_checks /\ SubOverflows(registers[IO], 48) THEN Abort("ArithmeticOverflow")
    ELSE LET ascii == WrapSub(registers[IO], 48)
         IN  SetReg(IO, IF ascii < 0 \/ ascii > 9 THEN -1 ELSE ascii)

ConvertIntegerToASCII ==
    IF overflow_checks /\ AddOverflows(registers[IO], 48) THEN Abort("ArithmeticOverflow")
    ELSE LET integer == WrapAdd(registers[IO], 48)
         IN  SetReg(IO, IF integer < 48 \/ integer > 57 THEN 48 ELSE integer)

\* Divide giving a zero quotient for a zero divisor
Divide_ZeroQuotient(A, B) ==
    IF ~ValidReg(B) \/ ~ValidReg(A) THEN Abort("IndexOutOfBounds")
    ELSE IF registers[B] = 0 THEN SetReg(A, 0)
    ELSE IF registers[A] = MinI32 /\ registers[B] = -1 THEN Abort("DivideOverflow")
    ELSE SetReg(A, TruncDiv(registers[A], registers[B]))

Divide(A, B) ==
    IF ~ValidReg(B) \/ ~ValidReg(A) THEN Abort("IndexOutOfBounds")
    ELSE IF registers[B] = 0 THEN Abort("DivideByZero")
    ELSE IF registers[A] = MinI32 /\ registers[B] = -1 THEN Abort("DivideOverflow")
    ELSE SetReg(A, TruncDiv(registers[A], registers[B]))

\* GreaterThanZeroJump that also jumps on zero
GreaterThanZeroJump_OnZero(A, B) == JumpIf(A, B, ValidReg(A) /\ registers[A] >= 0)

GreaterThanZeroJump(A, B) == JumpIf(A, B, ValidReg(A) /\ registers[A] > 0)

\* read_line at the end of the input is Ok(0) and leaves the line empty;
\* chars().nth(0).unwrap() of an empty line panics
InputASCII ==
    IF stdin = << >> THEN Abort("UnwrapOnNone")
    ELSE IF Head(stdin).kind = "error"
         THEN [Same EXCEPT !.stdin = Tail(stdin), !.stdout = Append(stdout, DiagLine)]
    ELSE [SetReg(IO, Head(stdin).text[1]) EXCEPT !.stdin = Tail(stdin)]

InputInteger ==
    IF stdin # << >> /\ Head(stdin).kind = "error"
    THEN [Same EXCEPT !.stdin = Tail(stdin), !.stdout = Append(stdout, DiagLine)]
    ELSE LET input == IF stdin = << >> THEN << >> ELSE Head(stdin).text
             rest == IF stdin = << >> THEN << >> ELSE Tail(stdin)
             num == parse_i32(trim(input))
         IN  IF num.ok THEN [SetReg(IO, num.n) EXCEPT !.stdin = rest]
             ELSE [Same EXCEPT !.stdin = rest, !.stdout = Append(stdout, DiagLine)]

\* Jump storing its operand as it is, without the 12 the loop adds back
Jump_NoBias(A) == SetReg(PC, A)

Jump(A) ==
    IF overflow_checks /\ SubOverflows(A, RecordWidth) THEN Abort("ArithmeticOverflow")
    ELSE SetReg(PC, WrapSub(A, RecordWidth))

JumpRelative(A) ==
    IF ~ValidReg(A) THEN Abort("IndexOutOfBounds")
    ELSE IF overflow_checks /\ SubOverflows(registers[A], RecordWidth)
         THEN Abort("ArithmeticOverflow")
    ELSE SetReg(PC, WrapSub(registers[A], RecordWidth))

LessThanZeroJump(A, B) == JumpIf(A, B, ValidReg(A) /\ registers[A] < 0)

\* LoadAddress clamping its register index into the register file
LoadAddress_Clamped(A, B) ==
    SetReg(IF A < 0 THEN 0 ELSE IF A >= NumRegisters THEN NumRegisters - 1 ELSE A, B)

\* LoadAddress storing B - 12 into PC, as the jumps do
LoadAddress_Compensating(A, B) ==
    IF ~ValidReg(A) THEN Abort("IndexOutOfBounds")
    ELSE SetReg(A, IF A = PC THEN WrapSub(B, RecordWidth) ELSE B)

LoadAddress(A, B) ==
    IF ~ValidReg(A) THEN Abort("IndexOutOfBounds") ELSE SetReg(A, B)

LoadByte(A, B) ==
    LET r == read_byte(memory, B)
    IN  IF r.panic # NoPanic THEN Abort(r.panic)
        ELSE IF ~ValidReg(A) THEN Abort("IndexOutOfBounds")
        ELSE SetReg(A, r.value)

LoadWord(A, B) ==
    LET r == read_word(memory, B)
    IN  IF r.panic # NoPanic THEN Abort(r.panic)
        ELSE IF ~ValidReg(A) THEN Abort("IndexOutOfBounds")
        ELSE SetReg(A, r.value)

Move(A, B) ==
    IF ~ValidReg(B) \/ ~ValidReg(A) THEN Abort("IndexOutOfBounds")
    ELSE SetReg(A, registers[B])

Multiply(A, B) ==
    IF ~ValidReg(A) \/ ~ValidReg(B) THEN Abort("IndexOutOfBounds")
    ELSE IF overflow_checks /\ MulOverflows(registers[A], registers[B])
         THEN Abort("ArithmeticOverflow")
    ELSE SetReg(A, WrapMul(registers[A], registers[B]))

NonZeroJump(A, B) == JumpIf(A, B, ValidReg(A) /\ registers[A] # 0)

Or(A, B) ==
    IF ~ValidReg(A) \/ ~ValidReg(B) THEN Abort("IndexOutOfBounds")
    ELSE SetReg(A, IF registers[A] # 0 \/ registers[B] # 0 THEN 1 ELSE 0)

\* print!("{}", (IO as u8) as char)
OutputASCII == [Same EXCEPT !.stdout = Append(stdout, << AsU8(registers[IO]) >>)]

\* OutputInteger writing IO as one character, as OutputASCII does
OutputInteger_AsCharacter ==
    [Same EXCEPT !.stdout = Append(stdout, << AsU8(registers[IO]) >>)]

\* print!("{}", IO)
OutputInteger == [Same EXCEPT !.stdout = Append(stdout, format_i32(registers[IO]))]

StoreByte(A, B) ==
    IF ~ValidReg(A) THEN Abort("IndexOutOfBounds")
    ELSE LET w == write_byte(memory, B, AsU8(registers[A]))
         IN  IF w.panic # NoPanic THEN Abort(w.panic)
             ELSE [Same EXCEPT !.memory = w.memory]

StoreWord(A, B) ==
    IF ~ValidReg(A) THEN Abort("IndexOutOfBounds")
    ELSE LET w == write_word(memory, B, AsU16(registers[A]))
         IN  IF w.panic # NoPanic THEN Abort(w.panic)
             ELSE [Same EXCEPT !.memory = w.memory]

\* Subtract with its operands the other way round: val_b - val_a
Subtract_Reversed(A, B) ==
    IF ~ValidReg(A) \/ ~ValidReg(B) THEN Abort("IndexOutOfBounds")
    ELSE IF overflow_checks /\ SubOverflows(registers[B], registers[A])
         THEN Abort("ArithmeticOverflow")
    ELSE SetReg(A, WrapSub(registers[B], registers[A]))

Subtract(A, B) ==
    IF ~ValidReg(A) \/ ~ValidReg(B) THEN Abort("IndexOutOfBounds")
    ELSE IF overflow_checks /\ SubOverflows(registers[A], registers[B])
         THEN Abort("ArithmeticOverflow")
    ELSE SetReg(A, WrapSub(registers[A], registers[B]))

\* End falling through to the `true` that ends execute
End_FallsThrough == Same

End == [Same EXCEPT !.running = FALSE]

execute(instruction, bc) ==
    CASE instruction = "Add" -> Add(bc[2], bc[3])
      [] instruction = "AddImmediate" -> AddImmediate(bc[2], bc[3])
      [] instruction = "And" -> And(bc[2], bc[3])
      [] instruction = "Compare" -> Compare(bc[2], bc[3])
      [] instruction = "CompareZeroJump" -> CompareZeroJump(bc[2], bc[3])
      [] instruction = "ConvertASCIIToInteger" -> ConvertASCIIToInteger
      [] instruction = "ConvertIntegerToASCII" -> ConvertIntegerToASCII
      [] instruction = "Divide" -> Divide(bc[2], bc[3])
      [] instruction = "GreaterThanZeroJump" -> GreaterThanZeroJump(bc[2], bc[3])
      [] instruction = "InputASCII" -> InputASCII
      [] instruction = "InputInteger" -> InputInteger
      [] instruction = "Jump" -> Jump(bc[2])
      [] instruction = "JumpRelative" -> JumpRelative(bc[2])
      [] instruction = "LessThanZeroJump" -> LessThanZeroJump(bc[2], bc[3])
      [] instruction = "LoadAddress" -> LoadAddress(bc[2], bc[3])
      [] instruction = "LoadByte" -> LoadByte(bc[2], bc[3])
      [] instruction = "LoadWord" -> LoadWord(bc[2], bc[3])
      [] instruction = "Move" -> Move(bc[2], bc[3])
      [] instruction = "Multiply" -> Multiply(bc[2], bc[3])
      [] instruction = "NonZeroJump" -> NonZeroJump(bc[2], bc[3])
      [] instruction = "Or" -> Or(bc[2], bc[3])
      [] instruction = "OutputASCII" -> OutputASCII
      [] instruction = "OutputInteger" -> OutputInteger
      [] instruction = "StoreByte" -> StoreByte(bc[2], bc[3])
      [] instruction = "StoreWord" -> StoreWord(bc[2], bc[3])
      [] instruction = "Subtract" -> Subtract(bc[2], bc[3])
      [] instruction = "End" -> End

(***************************************************************************)
(* The programs and console inputs the model runs.                         *)
(***************************************************************************)
\* one instruction record: the opcode and the two operand words
Rec(name, a, b) == << Opcode(name), a, b >>

RECURSIVE Assemble(_)
\* the bytes of a sequence of records: three little-endian words each
Assemble(recs) ==
    IF recs = << >> THEN << >>
    ELSE LET r == Head(recs)
         IN  LeBytes(r[1]) \o LeBytes(r[2]) \o LeBytes(r[3]) \o Assemble(Tail(recs))

\* the values the first two records load into IO and register 1
Operands ==
    { << 0, 0 >>, << 5, 3 >>, << -7, 2 >>, << 7, -2 >>, << MinI32, -1 >>,
      << MinI32, MaxI32 >>, << MaxI32, MinI32 >>, << MaxI32, 1 >>, << 53, 0 >>,
      << 9, 1 >>, << 58, -1 >>, << 36, 24 >>, << 24, 36 >>, << 300, 5 >>,
      << 74565, 0 >>, << -2, 7 >>, << 10, MaxI32 >>, << -1, -1 >> }

\* further values of IO for the two conversions: the digit codes at the ends
\* of 48..57 and the code below them
DigitOperands == { << 47, 0 >>, << 48, 0 >>, << 57, 0 >> }

\* register operand pairs: two registers, the same register twice, PC as
\* the source and as the destination, and indices outside the register file
RegPairs ==
    { << IO, 1 >>, << 1, IO >>, << 1, 1 >>, << 1, PC >>, << PC, 1 >>,
      << NumRegisters, 1 >>, << 1, -1 >> }

\* address operands: the data bytes after the program, the last bytes of
\* the buffer, and addresses outside it
DataAddresses ==
    { 60, MAX_MEMORY - 2, MAX_MEMORY - 1, MAX_MEMORY, MAX_MEMORY + 1, -1 }

\* jump target operands: the records of the program, a target inside a
\* record, the end of the buffer, and targets near the least i32
JumpTargets ==
    { 0, 24, 36, 48, 30, MAX_MEMORY, MinI32, MinI32 + 11, MinI32 + 12 }

\* the third record of a program: the instruction under test
ThirdRecords ==
    { Rec(n, p[1], p[2]) :
        n \in { "Add", "And", "Compare", "Divide", "Move", "Multiply", "Or", "Subtract" },
        p \in RegPairs }
    \cup { Rec("AddImmediate", p[1], p[2]) :
             p \in { << IO, 3 >>, << IO, MaxI32 >>, << IO, -1 >>, << NumRegisters, 3 >> } }
    \cup { Rec(n, p[1], p[2]) :
             n \in { "CompareZeroJump", "GreaterThanZeroJump", "LessThanZeroJump",
                     "NonZeroJump" },
             p \in { << IO, 48 >>, << 1, 48 >>, << IO, MinI32 >>, << PC, 48 >>,
                     << NumRegisters, 48 >>, << -1, MinI32 >> } }
    \cup { Rec(n, 0, 0) :
             n \in { "ConvertASCIIToInteger", "ConvertIntegerToASCII", "InputASCII",
                     "InputInteger", "OutputASCII", "OutputInteger", "End" } }
    \cup { Rec("Jump", t, 0) : t \in JumpTargets }
    \cup { Rec("JumpRelative", r, 0) : r \in { IO, 1, PC, NumRegisters } }
    \cup { Rec("LoadAddress", p[1], p[2]) :
             p \in { << 2, 5 >>, << PC, 24 >>, << PC, 36 >>, << PC, MaxI32 >>,
                     << NumRegisters, 5 >> } }
    \cup { Rec(n, 2, a) : n \in { "LoadByte", "LoadWord" }, a \in DataAddresses \cup { 0 } }
    \cup { Rec(n, NumRegisters, a) :
             n \in { "LoadByte", "LoadWord", "StoreByte", "StoreWord" },
             a \in { 60, MAX_MEMORY + 1 } }
    \cup { Rec(n, IO, a) : n \in { "StoreByte", "StoreWord" }, a \in DataAddresses }
    \cup { Rec("Move", PC, 1) }
    \cup { << 0, 0, 0 >>, << Len(Instructions) + 1, 0, 0 >>, << -1, 1, 1 >> }

\* the fourth record, by the third: Subtract on Add's operands, a load from
\* the address of a store, the conversion back, an output for a jump to
\* skip, and End otherwise
FourthRecord(x) ==
    LET n == from_bytecode(x)
    IN  IF n = "Add" THEN Rec("Subtract", x[2], x[3])
        ELSE IF n = "StoreByte" THEN Rec("LoadByte", 2, x[3])
        ELSE IF n = "StoreWord" THEN Rec("LoadWord", 2, x[3])
        ELSE IF n = "ConvertASCIIToInteger" THEN Rec("ConvertIntegerToASCII", 0, 0)
        ELSE IF n \in { "Jump", "JumpRelative", "CompareZeroJump", "NonZeroJump",
                        "GreaterThanZeroJump", "LessThanZeroJump", "AddImmediate",
                        "LoadAddress", "Move" }
             THEN Rec("OutputInteger", 0, 0)
        ELSE Rec("End", 0, 0)

\* a program: two loads, the instruction under test, what follows it, End
Program(ops, x) ==
    << Rec("LoadAddress", IO, ops[1]), Rec("LoadAddress", 1, ops[2]), x,
       FourthRecord(x), Rec("End", 0, 0) >>

\* the operand values a program with the third record x is run on
OperandsFor(x) ==
    IF from_bytecode(x) \in { "ConvertASCIIToInteger", "ConvertIntegerToASCII" }
    THEN Operands \cup DigitOperands
    ELSE Operands

\* the program that loads 5 into IO, adds 3 and writes IO in decimal
Scenario ==
    << Rec("LoadAddress", IO, 5), Rec("AddImmediate", IO, 3),
       Rec("OutputInteger", 0, 0), Rec("End", 0, 0) >>

ReadsInput(rec) == rec[1] \in { Opcode("InputASCII"), Opcode("InputInteger") }

\* a line of console input, by its characters
Line(text) == [kind |-> "line", text |-> text]
ReadError == [kind |-> "error", text |-> << >>]

\* the console input: nothing (end of input), a read error, and the lines
\* "5", "a", " -42 ", "", "2147483648", "-2147483648", "+7", "-" and an
\* e-acute, each with its line end but the last, which the input ends
ConsoleInputs ==
    { << >>, << ReadError >>,
      << Line(<< 53, 10 >>) >>, << Line(<< 97, 10 >>) >>,
      << Line(<< 32, 45, 52, 50, 32, 10 >>) >>, << Line(<< 10 >>) >>,
      << Line(<< 50, 49, 52, 55, 52, 56, 51, 54, 52, 56, 10 >>) >>,
      << Line(<< 45, 50, 49, 52, 55, 52, 56, 51, 54, 52, 56, 10 >>) >>,
      << Line(<< 43, 55, 10 >>) >>, << Line(<< 45, 10 >>) >>,
      << Line(<< 233 >>) >> }

\* byte sequences that are no whole program: nothing, part of a record, a
\* buffer filled to its last byte, and sequences longer than the buffer
OtherCode ==
    { << >>, << 27, 0, 0, 0, 0 >>,
      [i \in 1..MAX_MEMORY |-> 255],
      [i \in 1..(MAX_MEMORY + 1) |-> 0],
      [i \in 1..(MAX_MEMORY + RecordWidth) |-> IF i = 1 THEN 27 ELSE 0] }

\* the start addresses a caller passes to run: the first record for a
\* program, and for the other byte sequences also a later record, the last
\* bytes of the buffer and addresses outside it
StartAddresses(c) ==
    IF c \in OtherCode THEN { 0, 24, MAX_MEMORY - 11, MAX_MEMORY, MAX_MEMORY + 1 }
    ELSE { 0 }

(***************************************************************************)
(* The state machine.                                                      *)
(***************************************************************************)
Init ==
    /\ phase = "new"
    /\ panic = NoPanic
    /\ overflow_checks \in BOOLEAN
    /\ \/ \E x \in ThirdRecords :
            /\ \E ops \in OperandsFor(x) : code = Assemble(Program(ops, x))
            /\ stdin \in (IF ReadsInput(x) THEN ConsoleInputs ELSE { << >> })
       \/ /\ code \in OtherCode \cup { Assemble(Scenario) }
          /\ stdin = << >>
    /\ registers = << >>
    /\ memory = << >>
    /\ address = 0
    /\ bytecode = << 0, 0, 0 >>
    /\ stdout = << >>

\* VM::new copying the bytes that fit
New_Truncating ==
    /\ phase = "new"
    /\ phase' = "constructed"
    /\ memory' = [i \in 1..MAX_MEMORY |-> IF i <= Len(code) THEN code[i] ELSE 0]
    /\ registers' = [r \in 0..(NumRegisters - 1) |-> 0]
    /\ UNCHANGED << panic, overflow_checks, code, address, bytecode, stdin, stdout >>

\* VM::new: the copy loop starts at the last byte of code, so code longer
\* than the buffer panics on memory[i] before any byte is copied
New ==
    /\ phase = "new"
    /\ IF Len(code) > MAX_MEMORY
       THEN /\ phase' = "panicked"
            /\ panic' = "IndexOutOfBounds"
            /\ UNCHANGED << registers, memory >>
       ELSE /\ phase' = "constructed"
            /\ memory' = [i \in 1..MAX_MEMORY |-> IF i <= Len(code) THEN code[i] ELSE 0]
            /\ registers' = [r \in 0..(NumRegisters - 1) |-> 0]
            /\ UNCHANGED panic
    /\ UNCHANGED << overflow_checks, code, address, bytecode, stdin, stdout >>

\* VM::run up to its loop: registers[pc] = start_address as i32
Run ==
    /\ phase = "constructed"
    /\ \E start_address \in StartAddresses(code) :
          registers' = [registers EXCEPT ![PC] = start_address]
    /\ phase' = "fetch"
    /\ UNCHANGED << panic, overflow_checks, code, memory, address, bytecode, stdin, stdout >>

\* the record run's loop reads at registers[pc]
Fetched == read_instruction(memory, registers[PC])

\* the fetch panics: the slice or one of the three unwraps
FetchFault ==
    /\ phase = "fetch"
    /\ Fetched.panic # NoPanic
    /\ phase' = "panicked"
    /\ panic' = Fetched.panic
    /\ address' = registers[PC]
    /\ UNCHANGED << overflow_checks, code, registers, memory, bytecode, stdin, stdout >>

\* the loop passing over a record that is not an instruction
StopNotInstruction_Skipping ==
    /\ phase = "fetch"
    /\ Fetched.panic = NoPanic
    /\ from_bytecode(Fetched.value) = NotInstruction
    /\ phase' = "advance"
    /\ address' = registers[PC]
    /\ bytecode' = Fetched.value
    /\ UNCHANGED << panic, overflow_checks, code, registers, memory, stdin, stdout >>

\* the arm `_ => false` of run's match on command.cmd_type
StopNotInstruction ==
    /\ phase = "fetch"
    /\ Fetched.panic = NoPanic
    /\ from_bytecode(Fetched.value) = NotInstruction
    /\ phase' = "halted"
    /\ address' = registers[PC]
    /\ bytecode' = Fetched.value
    /\ UNCHANGED << panic, overflow_checks, code, registers, memory, stdin, stdout >>

\* one iteration of run's loop up to `if !running`, at phase "fetch":
\* fetch, decode, execute
Step(instruction) ==
    /\ Fetched.panic = NoPanic
    /\ from_bytecode(Fetched.value) = instruction
    /\ LET e == execute(instruction, Fetched.value)
       IN  /\ Len(e.stdout) <= MaxOut
           /\ phase' = IF e.panic # NoPanic THEN "panicked"
                       ELSE IF e.running THEN "advance" ELSE "halted"
           /\ panic' = e.panic
           /\ registers' = e.registers
           /\ memory' = e.memory
           /\ stdin' = e.stdin
           /\ stdout' = e.stdout
    /\ address' = registers[PC]
    /\ bytecode' = Fetched.value
    /\ UNCHANGED << overflow_checks, code >>

ExecAdd ==
    /\ phase = "fetch"
    /\ Step("Add")
ExecAddImmediate ==
    /\ phase = "fetch"
    /\ Step("AddImmediate")
ExecAnd ==
    /\ phase = "fetch"
    /\ Step("And")
ExecCompare ==
    /\ phase = "fetch"
    /\ Step("Compare")
ExecCompareZeroJump ==
    /\ phase = "fetch"
    /\ Step("CompareZeroJump")
ExecConvertASCIIToInteger ==
    /\ phase = "fetch"
    /\ Step("ConvertASCIIToInteger")
ExecConvertIntegerToASCII ==
    /\ phase = "fetch"
    /\ Step("ConvertIntegerToASCII")
ExecDivide ==
    /\ phase = "fetch"
    /\ Step("Divide")
ExecGreaterThanZeroJump ==
    /\ phase = "fetch"
    /\ Step("GreaterThanZeroJump")
ExecInputASCII ==
    /\ phase = "fetch"
    /\ Step("InputASCII")
ExecInputInteger ==
    /\ phase = "fetch"
    /\ Step("InputInteger")
ExecJump ==
    /\ phase = "fetch"
    /\ Step("Jump")
ExecJumpRelative ==
    /\ phase = "fetch"
    /\ Step("JumpRelative")
ExecLessThanZeroJump ==
    /\ phase = "fetch"
    /\ Step("LessThanZeroJump")
ExecLoadAddress ==
    /\ phase = "fetch"
    /\ Step("LoadAddress")
ExecLoadByte ==
    /\ phase = "fetch"
    /\ Step("LoadByte")
ExecLoadWord ==
    /\ phase = "fetch"
    /\ Step("LoadWord")
ExecMove ==
    /\ phase = "fetch"
    /\ Step("Move")
ExecMultiply ==
    /\ phase = "fetch"
    /\ Step("Multiply")
ExecNonZeroJump ==
    /\ phase = "fetch"
    /\ Step("NonZeroJump")
ExecOr ==
    /\ phase = "fetch"
    /\ Step("Or")
ExecOutputASCII ==
    /\ phase = "fetch"
    /\ Step("OutputASCII")
ExecOutputInteger ==
    /\ phase = "fetch"
    /\ Step("OutputInteger")
ExecStoreByte ==
    /\ phase = "fetch"
    /\ Step("StoreByte")
ExecStoreWord ==
    /\ phase = "fetch"
    /\ Step("StoreWord")
ExecSubtract ==
    /\ phase = "fetch"
    /\ Step("Subtract")
ExecEnd ==
    /\ phase = "fetch"
    /\ Step("End")

\* the loop not advancing after a control transfer
Advance_NotAfterJump ==
    /\ phase = "advance"
    /\ phase' = "fetch"
    /\ registers' = IF from_bytecode(bytecode) \in { "Jump", "JumpRelative" }
                    THEN registers
                    ELSE [registers EXCEPT ![PC] = WrapAdd(registers[PC], RecordWidth)]
    /\ UNCHANGED << panic, overflow_checks, code, memory, address, bytecode, stdin, stdout >>

\* the loop ending the run when an instruction has jumped to itself
Advance_DetectsLoop ==
    /\ phase = "advance"
    /\ IF overflow_checks /\ AddOverflows(registers[PC], RecordWidth)
       THEN /\ phase' = "panicked"
            /\ panic' = "ArithmeticOverflow"
            /\ UNCHANGED registers
       ELSE /\ phase' = IF WrapAdd(registers[PC], RecordWidth) = address
                        THEN "halted" ELSE "fetch"
            /\ registers' = [registers EXCEPT ![PC] = WrapAdd(registers[PC], RecordWidth)]
            /\ UNCHANGED panic
    /\ UNCHANGED << overflow_checks, code, memory, address, bytecode, stdin, stdout >>

\* the end of an iteration that goes on: self.registers[pc] += 12
Advance ==
    /\ phase = "advance"
    /\ IF overflow_checks /\ AddOverflows(registers[PC], RecordWidth)
       THEN /\ phase' = "panicked"
            /\ panic' = "ArithmeticOverflow"
            /\ UNCHANGED registers
       ELSE /\ phase' = "fetch"
            /\ registers' = [registers EXCEPT ![PC] = WrapAdd(registers[PC], RecordWidth)]
            /\ UNCHANGED panic
    /\ UNCHANGED << overflow_checks, code, memory, address, bytecode, stdin, stdout >>

Next ==
    \/ New
    \/ Run
    \/ FetchFault
    \/ StopNotInstruction
    \/ ExecAdd
    \/ ExecAddImmediate
    \/ ExecAnd
    \/ ExecCompare
    \/ ExecCompareZeroJump
    \/ ExecConvertASCIIToInteger
    \/ ExecConvertIntegerToASCII
    \/ ExecDivide
    \/ ExecGreaterThanZeroJump
    \/ ExecInputASCII
    \/ ExecInputInteger
    \/ ExecJump
    \/ ExecJumpRelative
    \/ ExecLessThanZeroJump
    \/ ExecLoadAddress
    \/ ExecLoadByte
    \/ ExecLoadWord
    \/ ExecMove
    \/ ExecMultiply
    \/ ExecNonZeroJump
    \/ ExecOr
    \/ ExecOutputASCII
    \/ ExecOutputInteger
    \/ ExecStoreByte
    \/ ExecStoreWord
    \/ ExecSubtract
    \/ ExecEnd
    \/ Advance

Spec == Init /\ [][Next]_vars

(***************************************************************************)
(* State functions the properties share.                                   *)
(***************************************************************************)
\* the loop is about to fetch, decode and execute the instruction `name`
Fetching(name) ==
    /\ phase = "fetch"
    /\ Fetched.panic = NoPanic
    /\ from_bytecode(Fetched.value) = name

\* the operand words of the record about to be executed
OperandA == Fetched.value[2]
OperandB == Fetched.value[3]

\* the instruction of the iteration in progress or just ended
Current == from_bytecode(bytecode)

ConditionalJumps ==
    { "CompareZeroJump", "NonZeroJump", "GreaterThanZeroJump", "LessThanZeroJump" }

\* the documented condition of a conditional jump on the tested value
ConditionHolds(name, v) ==
    CASE name = "CompareZeroJump" -> v = 0
      [] name = "NonZeroJump" -> v # 0
      [] name = "GreaterThanZeroJump" -> v > 0
      [] name = "LessThanZeroJump" -> v < 0

\* every register but PC keeps its value in this step
OtherRegistersUnchanged ==
    \A r \in 0..(NumRegisters - 1) : r # PC => registers'[r] = registers[r]

\* the record at address a of memory
RecordAt(a) == read_instruction(memory, a).value

(***************************************************************************)
(* C1.  Jump with target operand T leaves PC equal to T - 12 right after   *)
(* the instruction, and the loop's advance then makes PC equal to T, the   *)
(* address the next fetch reads from.                                      *)
(***************************************************************************)
\* C1 as stated, for every target operand T
C1_JumpEveryTarget ==
    [][ /\ Fetching("Jump") =>
              /\ phase' = "advance"
              /\ ~SubOverflows(OperandA, RecordWidth)
              /\ registers'[PC] = OperandA - RecordWidth
        /\ (phase = "advance" /\ Current = "Jump") =>
              /\ phase' = "fetch"
              /\ registers'[PC] = bytecode[2]
        /\ phase = "fetch" => address' = registers[PC] ]_vars

\* C1 amended: for every target operand T with T - 12 in the i32 range
\* (T >= -2^31 + 12), PC = T - 12 right after Jump, PC = T after the
\* advance, and the next fetch reads from PC.
C1_JumpTarget ==
    [][ /\ (Fetching("Jump") /\ OperandA >= MinI32 + RecordWidth) =>
              /\ phase' = "advance"
              /\ registers'[PC] = OperandA - RecordWidth
        /\ (phase = "advance" /\ Current = "Jump") =>
              /\ phase' = "fetch"
              /\ registers'[PC] = bytecode[2]
        /\ phase = "fetch" => address' = registers[PC] ]_vars

\* the Jump at 24 to 48 was executed and the record at 48 fetched next
C1_Witness ==
    /\ phase = "halted"
    /\ address = 48
    /\ RecordAt(24) = Rec("Jump", 48, 0)
    /\ stdout = << >>

(***************************************************************************)
(* C2.  What the loop does to PC after an instruction that reports         *)
(* continue.                                                               *)
(***************************************************************************)
\* the value a conditional jump tested: the register's, which the jump
\* left alone unless the register is PC, whose value was the fetch address
TestedValue == IF bytecode[2] = PC THEN address ELSE registers[bytecode[2]]

\* the instruction just executed was a control transfer that stored a
\* target into PC
Redirected ==
    \/ Current \in { "Jump", "JumpRelative" }
    \/ Current \in ConditionalJumps /\ ConditionHolds(Current, TestedValue)

\* C2 as stated: PC advances by 12 after an instruction that is no control
\* transfer, and keeps the value a redirecting control transfer stored
C2_NoAdvanceAfterTransfer ==
    [][ phase = "advance" =>
          IF Redirected THEN registers'[PC] = registers[PC]
          ELSE registers'[PC] = registers[PC] + RecordWidth ]_vars

\* C2 amended: after every instruction that reports continue, control
\* transfers included, the loop adds 12 to PC, so that PC then holds the
\* target T of a Jump that stored T - 12; where PC + 12 leaves the i32
\* range, the addition wraps in a build without overflow checks and ends the
\* run in a panic, PC unchanged, in a build with them.
C2_AdvanceAlways ==
    [][ phase = "advance" =>
          IF AddOverflows(registers[PC], RecordWidth)
          THEN IF overflow_checks
               THEN phase' = "panicked" /\ registers' = registers
               ELSE /\ phase' = "fetch"
                    /\ registers'[PC] = (registers[PC] - MaxI32 - 1) + (RecordWidth + MinI32)
                    /\ OtherRegistersUnchanged
          ELSE /\ phase' = "fetch"
               /\ registers'[PC] = registers[PC] + RecordWidth
               /\ OtherRegistersUnchanged
               /\ Current = "Jump" => registers'[PC] = bytecode[2] ]_vars

\* the loop has advanced PC to the target 48 of the taken conditional jump
\* at 24
C2_Witness ==
    /\ phase = "fetch"
    /\ Current = "CompareZeroJump"
    /\ address = 24
    /\ bytecode[3] = 48
    /\ registers[bytecode[2]] = 0
    /\ registers[PC] = 48

(***************************************************************************)
(* C3.  Conditional jumps: taken to T when the condition holds on the      *)
(* tested register, on to P + 12 when it does not, with no other register, *)
(* no memory byte and no console effect.                                   *)
(***************************************************************************)
\* the step executes a conditional jump and the run goes on: only PC may
\* change
ConditionalJumpStep ==
    /\ phase' = "advance"
    /\ OtherRegistersUnchanged
    /\ memory' = memory
    /\ stdin' = stdin
    /\ stdout' = stdout

\* the advance after a conditional jump at P: the next fetch is from T when
\* the condition held and from P + 12 when it did not
ConditionalJumpAdvance ==
    /\ phase' = "fetch"
    /\ registers'[PC] = IF ConditionHolds(Current, TestedValue)
                        THEN bytecode[3] ELSE address + RecordWidth
    /\ OtherRegistersUnchanged
    /\ memory' = memory
    /\ stdin' = stdin
    /\ stdout' = stdout

\* C3 as stated, for every address operand T
C3_ConditionalJumpEveryTarget ==
    [][ /\ \A name \in ConditionalJumps :
              (Fetching(name) /\ ValidReg(OperandA)) => ConditionalJumpStep
        /\ (phase = "advance" /\ Current \in ConditionalJumps) => ConditionalJumpAdvance
      ]_vars

\* C3 amended: as stated, except that in a build with overflow checks an
\* address operand T below -2^31 + 12 ends the run in a panic, whether the
\* condition holds or not (T - 12 is computed before the test).
C3_ConditionalJump ==
    [][ /\ \A name \in ConditionalJumps :
              (Fetching(name) /\ ValidReg(OperandA)) =>
                  IF overflow_checks /\ OperandB < MinI32 + RecordWidth
                  THEN phase' = "panicked" /\ registers' = registers /\ memory' = memory
                  ELSE ConditionalJumpStep
        /\ (phase = "advance" /\ Current \in ConditionalJumps) => ConditionalJumpAdvance
      ]_vars

\* the run halted at the End at 48 after the CompareZeroJump at 24 jumped
\* over the OutputInteger at 36, with nothing written
C3_Witness ==
    /\ phase = "halted"
    /\ address = 48
    /\ Current = "End"
    /\ RecordAt(24) = Rec("CompareZeroJump", IO, 48)
    /\ RecordAt(36) = Rec("OutputInteger", 0, 0)
    /\ registers[IO] = 0
    /\ stdout = << >>

(***************************************************************************)
(* C4.  End halts the run: no register (PC stays at the End record) and no *)
(* memory byte changes, and nothing is fetched or executed afterwards.     *)
(***************************************************************************)
C4_EndHalts ==
    [][ /\ Fetching("End") =>
              /\ phase' = "halted"
              /\ registers' = registers
              /\ address' = registers[PC]
              /\ memory' = memory
              /\ stdin' = stdin
              /\ stdout' = stdout
        /\ phase # "halted" ]_vars

\* the run halted at the End at 24, which an End record follows at 36
C4_Witness ==
    /\ phase = "halted"
    /\ Current = "End"
    /\ address = 24
    /\ registers[PC] = 24
    /\ RecordAt(36) = Rec("End", 0, 0)
    /\ registers[IO] = 5

(***************************************************************************)
(* C5.  A memory access outside the buffer ends the run with an error and  *)
(* leaves memory unchanged: LoadByte, LoadWord, StoreByte, StoreWord and    *)
(* the fetch.                                                              *)
(***************************************************************************)
\* the n bytes from address a are not all inside the buffer
OutsideMemory(a, n) == a < 0 \/ a > Len(memory) - n

MemoryFaults == { "RangeStartOutOfBounds", "UnwrapOnErr" }

\* the step ends the run with a memory fault, memory as it was
EndsInMemoryFault ==
    /\ phase' = "panicked"
    /\ panic' \in MemoryFaults
    /\ memory' = memory

C5_OutOfBoundsEndsRun ==
    [][ /\ \A name \in { "LoadByte", "StoreByte" } :
              (Fetching(name) /\ ValidReg(OperandA) /\ OutsideMemory(OperandB, 1))
                  => EndsInMemoryFault
        /\ \A name \in { "LoadWord", "StoreWord" } :
              (Fetching(name) /\ ValidReg(OperandA) /\ OutsideMemory(OperandB, 2))
                  => EndsInMemoryFault
        /\ (phase = "fetch" /\ OutsideMemory(registers[PC], RecordWidth))
              => EndsInMemoryFault ]_vars

(***************************************************************************)
(* C6.  Divide with a zero divisor ends the run in an outcome of its own:  *)
(* the destination keeps its value, nothing is executed afterwards, and no *)
(* normal halt and no other fault ends in that outcome.                    *)
(***************************************************************************)
C6_DivideByZero ==
    [][ /\ (Fetching("Divide") /\ ValidReg(OperandA) /\ ValidReg(OperandB)
              /\ registers[OperandB] = 0) =>
              /\ phase' = "panicked"
              /\ panic' = "DivideByZero"
              /\ registers' = registers
              /\ memory' = memory
              /\ stdout' = stdout
        /\ phase # "panicked"
        /\ panic' = "DivideByZero" =>
              /\ Fetching("Divide")
              /\ ValidReg(OperandB)
              /\ registers[OperandB] = 0
        /\ phase' = "halted" => panic' = NoPanic ]_vars

\* the Divide of 53 by 0 ended the run
C6_Witness ==
    /\ phase = "panicked"
    /\ panic = "DivideByZero"
    /\ bytecode = Rec("Divide", IO, 1)
    /\ registers[IO] = 53
    /\ registers[1] = 0

TwoRegisterInstructions ==
    { "Add", "And", "Compare", "Divide", "Move", "Multiply", "Or", "Subtract" }

OneRegisterInstructions ==
    { "AddImmediate", "CompareZeroJump", "GreaterThanZeroJump", "LessThanZeroJump",
      "NonZeroJump", "JumpRelative", "LoadAddress", "LoadByte", "LoadWord",
      "StoreByte", "StoreWord" }

\* the instruction about to be executed names a register outside the file
InvalidRegisterOperand(name) ==
    /\ Fetching(name)
    /\ \/ name \in TwoRegisterInstructions /\ (~ValidReg(OperandA) \/ ~ValidReg(OperandB))
       \/ name \in OneRegisterInstructions /\ ~ValidReg(OperandA)

\* C8 as stated: the error is the invalid-register-index error
C8_InvalidRegisterIndexError ==
    [][ \A name \in TwoRegisterInstructions \cup OneRegisterInstructions :
          InvalidRegisterOperand(name) =>
              /\ phase' = "panicked"
              /\ panic' = "IndexOutOfBounds"
              /\ registers' = registers
              /\ memory' = memory ]_vars

\* the fault an instruction with an invalid register operand ends in
InvalidRegisterFaults(name) ==
    IF name = "LoadByte" /\ OutsideMemory(OperandB, 1) THEN MemoryFaults
    ELSE IF name = "LoadWord" /\ OutsideMemory(OperandB, 2) THEN MemoryFaults
    ELSE IF name \in ConditionalJumps /\ overflow_checks
            /\ OperandB < MinI32 + RecordWidth THEN { "ArithmeticOverflow" }
    ELSE { "IndexOutOfBounds" }

\* C8 amended: the run ends in a fatal error before any register or memory
\* byte changes and the index is never clamped or wrapped; the error is the
\* index-out-of-range one unless the instruction faults on its other operand
\* first: LoadByte and LoadWord read memory before they index the register
\* file, so an address outside the buffer gives the memory fault, and in a
\* build with overflow checks a conditional jump whose address operand T is
\* below -2^31 + 12 overflows on T - 12 before it indexes.
C8_InvalidRegister ==
    [][ \A name \in TwoRegisterInstructions \cup OneRegisterInstructions :
          InvalidRegisterOperand(name) =>
              /\ phase' = "panicked"
              /\ panic' \in InvalidRegisterFaults(name)
              /\ registers' = registers
              /\ memory' = memory ]_vars

\* Add with the source operand -1 ended the run, the destination as loaded
C8_Witness ==
    /\ phase = "panicked"
    /\ panic = "IndexOutOfBounds"
    /\ bytecode = Rec("Add", 1, -1)
    /\ registers[1] = 3
    /\ registers[IO] = 5

(***************************************************************************)
(* C9.  A failed input instruction leaves every register and memory as     *)
(* they were and the run goes on.                                          *)
(***************************************************************************)
\* the console read of the input instruction about to run fails
InputFails ==
    \/ /\ Fetching("InputASCII")
       /\ (stdin = << >> \/ Head(stdin).kind = "error")
    \/ /\ Fetching("InputInteger")
       /\ \/ stdin = << >>
          \/ Head(stdin).kind = "error"
          \/ ~parse_i32(trim(Head(stdin).text)).ok

C9_InputFailureRecoverable ==
    [][ InputFails =>
          /\ phase' = "advance"
          /\ registers' = registers
          /\ memory' = memory ]_vars

(***************************************************************************)
(* C10.  Compare stores the sign of the mathematical difference of the two *)
(* register values, one of -1, 0, 1, and the value for (a, b) is the       *)
(* negation of the value for (b, a).                                       *)
(***************************************************************************)
\* the sign of a - b, from the two 16-bit halves of each value, so that no
\* difference leaves the range of the integers at hand
SignOfDifference(a, b) ==
    LET dh == (a \div 65536) - (b \div 65536)
        dl == (a % 65536) - (b % 65536)
    IN  IF dh > 0 THEN 1 ELSE IF dh < 0 THEN -1
        ELSE IF dl > 0 THEN 1 ELSE IF dl < 0 THEN -1 ELSE 0

C10_Compare ==
    [][ (Fetching("Compare") /\ ValidReg(OperandA) /\ ValidReg(OperandB)) =>
          /\ phase' = "advance"
          /\ registers'[OperandA] \in { -1, 0, 1 }
          /\ registers'[OperandA] = SignOfDifference(registers[OperandA], registers[OperandB])
          /\ registers'[OperandA] = -CompareValue(registers[OperandB], registers[OperandA])
      ]_vars

\* Compare of -2^31 with 2^31 - 1, whose difference is not an i32, stored -1
C10_Witness ==
    /\ phase = "advance"
    /\ bytecode = Rec("Compare", IO, 1)
    /\ RecordAt(0) = Rec("LoadAddress", IO, MinI32)
    /\ registers[1] = MaxI32
    /\ registers[IO] = -1

(***************************************************************************)
(* C11.  Add regA, regB followed by Subtract regA, regB restores regA,     *)
(* where neither step overflows.                                           *)
(***************************************************************************)
\* the value register r holds when the third record of a program is
\* fetched: what the first two records loaded, the fetch address in PC, and
\* zero in the registers the program has not touched
Loaded(r) ==
    IF r = IO THEN RecordAt(0)[3]
    ELSE IF r = 1 THEN RecordAt(12)[3]
    ELSE IF r = PC THEN 2 * RecordWidth
    ELSE 0

\* the Subtract at 36 has just been executed after the Add at 24 with the
\* same operand pair, and the Add did not overflow
AddThenSubtract ==
    /\ phase = "advance"
    /\ Current = "Subtract"
    /\ address = 3 * RecordWidth
    /\ RecordAt(2 * RecordWidth) = Rec("Add", bytecode[2], bytecode[3])
    /\ ~AddOverflows(Loaded(bytecode[2]), Loaded(bytecode[3]))

ConvertsTo(v) ==
    /\ phase' = "advance"
    /\ registers' = [registers EXCEPT ![IO] = v]
    /\ memory' = memory
    /\ stdout' = stdout

\* the step ends the run in an overflow panic, IO as it was
ConvertOverflows ==
    /\ phase' = "panicked"
    /\ panic' = "ArithmeticOverflow"
    /\ registers' = registers

\* the ConvertIntegerToASCII at 36 follows the ConvertASCIIToInteger at 24,
\* which a digit code was loaded for: IO is that digit code again
RoundTrip ==
    (/\ Fetching("ConvertIntegerToASCII")
     /\ registers[PC] = 3 * RecordWidth
     /\ RecordAt(2 * RecordWidth) = Rec("ConvertASCIIToInteger", 0, 0)
     /\ Loaded(IO) \in 48..57) => registers'[IO] = Loaded(IO)

\* C12 as stated: for every signed 32-bit value of IO
C12_ConvertEveryValue ==
    [][ /\ Fetching("ConvertASCIIToInteger") =>
              ConvertsTo(IF registers[IO] \in 48..57 THEN registers[IO] - 48 ELSE -1)
        /\ Fetching("ConvertIntegerToASCII") =>
              ConvertsTo(IF registers[IO] \in 0..9 THEN registers[IO] + 48 ELSE 48)
        /\ RoundTrip ]_vars

\* C12 amended: as stated, except that in a build with overflow checks
\* ConvertASCIIToInteger with IO below -2^31 + 48 and ConvertIntegerToASCII
\* with IO above 2^31 - 1 - 48 end the run in an overflow panic with IO
\* unchanged (IO - 48 and IO + 48 are computed before the range test).
C12_Convert ==
    [][ /\ Fetching("ConvertASCIIToInteger") =>
              IF overflow_checks /\ registers[IO] < MinI32 + 48 THEN ConvertOverflows
              ELSE ConvertsTo(IF registers[IO] \in 48..57 THEN registers[IO] - 48 ELSE -1)
        /\ Fetching("ConvertIntegerToASCII") =>
              IF overflow_checks /\ registers[IO] > MaxI32 - 48 THEN ConvertOverflows
              ELSE ConvertsTo(IF registers[IO] \in 0..9 THEN registers[IO] + 48 ELSE 48)
        /\ RoundTrip ]_vars

\* the digit code 57 is back in IO after the two conversions
C12_Witness ==
    /\ phase = "advance"
    /\ Current = "ConvertIntegerToASCII"
    /\ address = 3 * RecordWidth
    /\ RecordAt(2 * RecordWidth) = Rec("ConvertASCIIToInteger", 0, 0)
    /\ Loaded(IO) = 57
    /\ registers[IO] = 57

(***************************************************************************)
(* C13.  StoreByte r, a stores the value of r modulo 256 at a and nothing  *)
(* else; LoadByte r2, a gives the byte at a, zero-extended; one after the  *)
(* other they carry a value of 0..255 from r to r2.                        *)
(***************************************************************************)
\* a is the address of a byte of the buffer
ByteAddress(a) == a >= 0 /\ a < Len(memory)

C13_StoreLoadByte ==
    [][ /\ (Fetching("StoreByte") /\ ValidReg(OperandA) /\ ByteAddress(OperandB)) =>
              /\ phase' = "advance"
              /\ memory' = [memory EXCEPT ![OperandB + 1] = registers[OperandA] % 256]
              /\ registers' = registers
        /\ (Fetching("LoadByte") /\ ValidReg(OperandA) /\ ByteAddress(OperandB)) =>
              /\ phase' = "advance"
              /\ registers' = [registers EXCEPT ![OperandA] = memory[OperandB + 1]]
              /\ registers'[OperandA] \in 0..255
              /\ memory' = memory
        /\ (/\ Fetching("LoadByte")
            /\ registers[PC] = 3 * RecordWidth
            /\ ValidReg(OperandA)
            /\ ByteAddress(OperandB)
            /\ RecordAt(2 * RecordWidth) = Rec("StoreByte", IO, OperandB)) =>
              /\ registers'[OperandA] = Loaded(IO) % 256
              /\ Loaded(IO) \in 0..255 => registers'[OperandA] = Loaded(IO) ]_vars

\* StoreByte IO, 60 with IO = -7 and then LoadByte r2, 60 have left 249 in r2
C13_Witness ==
    /\ phase = "advance"
    /\ bytecode = Rec("LoadByte", 2, 60)
    /\ RecordAt(2 * RecordWidth) = Rec("StoreByte", IO, 60)
    /\ registers[IO] = -7
    /\ registers[2] = 249
    /\ memory[61] = 249

(***************************************************************************)
(* C14.  The program [LoadAddress IO, 5] [AddImmediate IO, 3]              *)
(* [OutputInteger] [End] run from 0 writes "8" and halts.                  *)
(***************************************************************************)
\* the text "8"
Eight == << << 56 >> >>

C14_Scenario ==
    code = Assemble(Scenario) =>
        /\ phase # "panicked"
        /\ stdout \in { << >>, Eight }
        /\ (phase \in { "fetch", "advance" } /\ stdout = Eight) =>
               registers[PC] \in { 2 * RecordWidth, 3 * RecordWidth }
        /\ phase = "halted" =>
               /\ stdout = Eight
               /\ bytecode = Rec("End", 0, 0)
               /\ address = 3 * RecordWidth
               /\ registers[IO] = 8

\* the scenario has halted with "8" written
C14_Witness ==
    /\ code = Assemble(Scenario)
    /\ phase = "halted"
    /\ stdout = Eight

(***************************************************************************)
(* C15.  The run starts at the caller's start address and the loop ends    *)
(* normally only on a halt; an instruction that jumps to itself keeps the  *)
(* run going for ever.                                                     *)
(***************************************************************************)
\* the record at 24 jumps to 24: Jump 24, or JumpRelative r with r = PC or
\* with 24 in r
JumpsToItself ==
    \/ RecordAt(2 * RecordWidth) = Rec("Jump", 2 * RecordWidth, 0)
    \/ \E r \in 0..(NumRegisters - 1) :
          /\ RecordAt(2 * RecordWidth) = Rec("JumpRelative", r, 0)
          /\ (r = PC \/ registers[r] = 2 * RecordWidth)

\* the run is at that record: about to fetch it, or between its execution
\* and the advance back to it
Looping ==
    /\ \/ phase = "fetch" /\ registers[PC] = 2 * RecordWidth
       \/ /\ phase = "advance"
          /\ address = 2 * RecordWidth
          /\ registers[PC] = RecordWidth
    /\ JumpsToItself

\* the record the loop is about to decode is not an instruction
FetchingNotInstruction ==
    /\ phase = "fetch"
    /\ Fetched.panic = NoPanic
    /\ from_bytecode(Fetched.value) = NotInstruction

\* run sets PC to the start address and enters the loop
StartsAtStartAddress ==
    phase = "constructed" =>
        /\ phase' = "fetch"
        /\ registers'[PC] \in StartAddresses(code)
        /\ OtherRegistersUnchanged
        /\ memory' = memory

\* C15 as stated: the loop ends normally only when the executor reports halt
C15_HaltOnlyByDispatcher ==
    [][ /\ StartsAtStartAddress
        /\ phase' = "halted" => Fetching("End")
        /\ Looping => Looping' ]_vars

\* C15 amended: the loop ends normally only when End is executed or when
\* the fetched record is not an instruction (the executor is then not
\* called); no count and no value of PC ends it, and a run at an
\* instruction that jumps to itself stays there.
C15_HaltOnlyByHalt ==
    [][ /\ StartsAtStartAddress
        /\ phase' = "halted" => (Fetching("End") \/ FetchingNotInstruction)
        /\ phase = "advance" => phase' \in { "fetch", "panicked" }
        /\ Looping => Looping' ]_vars

\* the JumpRelative at 24 naming PC has been executed, and the loop is
\* about to advance PC from 12 back to 24
C15_Witness ==
    /\ phase = "advance"
    /\ bytecode = Rec("JumpRelative", PC, 0)
    /\ Looping

(***************************************************************************)
(* C16.  A fetched record that is not an instruction stops the run as End  *)
(* does: no register, PC included, and no memory byte changes, nothing is  *)
(* written, and nothing is fetched afterwards.                             *)
(***************************************************************************)
C16_NotInstructionStops ==
    [][ /\ FetchingNotInstruction =>
              /\ phase' = "halted"
              /\ panic' = NoPanic
              /\ registers' = registers
              /\ memory' = memory
              /\ stdin' = stdin
              /\ stdout' = stdout
              /\ address' = registers[PC]
        /\ (phase = "halted" /\ Current = NotInstruction) => FALSE ]_vars

\* the run stopped at the record at 24, whose opcode word is above every
\* instruction's, with IO and r1 as loaded and PC still 24
C16_Witness ==
    /\ phase = "halted"
    /\ bytecode = << Len(Instructions) + 1, 0, 0 >>
    /\ address = 2 * RecordWidth
    /\ registers[PC] = 2 * RecordWidth
    /\ registers[IO] = 5
    /\ registers[1] = 3
    /\ RecordAt(3 * RecordWidth) = Rec("End", 0, 0)

(***************************************************************************)
(* C17.  StoreWord r, a with a + 1 inside the buffer stores the low 16     *)
(* bits of r, low byte first, and nothing else; LoadWord r2, a then gives  *)
(* the value of r modulo 65536.                                            *)
(***************************************************************************)
\* a and a + 1 are addresses of bytes of the buffer
WordAddress(a) == a >= 0 /\ a + 1 < Len(memory)

C17_StoreLoadWord ==
    [][ /\ (Fetching("StoreWord") /\ ValidReg(OperandA) /\ WordAddress(OperandB)) =>
              /\ phase' = "advance"
              /\ memory' = [memory EXCEPT
                                ![OperandB + 1] = registers[OperandA] % 256,
                                ![OperandB + 2] = (registers[OperandA] \div 256) % 256]
              /\ registers' = registers
        /\ (/\ Fetching("LoadWord")
            /\ registers[PC] = 3 * RecordWidth
            /\ ValidReg(OperandA)
            /\ WordAddress(OperandB)
            /\ RecordAt(2 * RecordWidth) = Rec("StoreWord", IO, OperandB)) =>
              /\ phase' = "advance"
              /\ registers' = [registers EXCEPT ![OperandA] = Loaded(IO) % 65536]
              /\ registers'[OperandA] \in 0..65535
              /\ memory' = memory ]_vars

\* StoreWord IO, 60 with IO = -2 and then LoadWord r2, 60 have left 65534
\* in r2, the two bytes at 60 and 61 being 254 and 255
C17_Witness ==
    /\ phase = "advance"
    /\ bytecode = Rec("LoadWord", 2, 60)
    /\ RecordAt(2 * RecordWidth) = Rec("StoreWord", IO, 60)
    /\ registers[IO] = -2
    /\ registers[2] = 65534
    /\ memory[61] = 254
    /\ memory[62] = 255

(***************************************************************************)
(* C18.  The frame of each instruction, and the fixed length of the        *)
(* memory buffer.                                                          *)
(***************************************************************************)
DestinationInstructions ==
    { "Add", "AddImmediate", "And", "Or", "Compare", "Divide", "Multiply",
      "Subtract", "Move", "LoadAddress", "LoadByte", "LoadWord" }

IOInstructions ==
    { "ConvertASCIIToInteger", "ConvertIntegerToASCII", "InputASCII", "InputInteger" }

\* every register but d and PC keeps its value in this step
OnlyChanges(d) ==
    \A r \in 0..(NumRegisters - 1) : (r # d /\ r # PC) => registers'[r] = registers[r]

C18_Frame ==
    [][ /\ \A name \in DestinationInstructions :
              Fetching(name) => (OnlyChanges(OperandA) /\ memory' = memory)
        /\ \A name \in IOInstructions :
              Fetching(name) => (OnlyChanges(IO) /\ memory' = memory)
        /\ \A name \in { "OutputASCII", "OutputInteger" } :
              Fetching(name) => (OnlyChanges(PC) /\ memory' = memory)
        /\ \A name \in { "StoreByte", "StoreWord" } :
              Fetching(name) => OnlyChanges(PC)
        /\ phase = "advance" => (OnlyChanges(PC) /\ memory' = memory)
        /\ phase # "new" => (Len(memory) = MAX_MEMORY /\ Len(memory') = MAX_MEMORY)
      ]_vars

\* StoreWord IO, capacity - 1, of which only the low byte fits, has been
\* executed: the buffer has its length and the registers their values
C18_Witness ==
    /\ phase = "advance"
    /\ bytecode = Rec("StoreWord", IO, MAX_MEMORY - 1)
    /\ Len(memory) = MAX_MEMORY
    /\ memory[MAX_MEMORY] = 44
    /\ registers[IO] = 300
    /\ registers[1] = 5

(***************************************************************************)
(* C19.  An instruction that is no jump and names PC as its destination    *)
(* stores its value in PC as it is, and the loop then adds 12: the next    *)
(* record is fetched 12 bytes after the stored address.                    *)
(***************************************************************************)
JumpFamily == { "Jump", "JumpRelative" } \cup ConditionalJumps

\* the loop's PC += 12 on the i32 in PC: the sum where it is an i32, and
\* otherwise a panic with overflow checks and the wrapped sum without
AdvancesBy12 ==
    IF ~AddOverflows(registers[PC], RecordWidth)
    THEN phase' = "fetch" /\ registers'[PC] = registers[PC] + RecordWidth
    ELSE IF overflow_checks THEN phase' = "panicked" /\ registers' = registers
         ELSE phase' = "fetch" /\ registers'[PC] = WrapAdd(registers[PC], RecordWidth)

QuotientOfMagnitudes(a, b) ==
    LET m == (IF a < 0 THEN -a ELSE a) \div (IF b < 0 THEN -b ELSE b)
    IN  IF (a < 0) # (b < 0) THEN -m ELSE m

\* the same for every a and b # 0 but (-2^31, -1): -2^31 is brought into
\* range by one multiple of b
Quotient(a, b) ==
    IF b = MinI32 THEN (IF a = MinI32 THEN 1 ELSE 0)
    ELSE IF a = MinI32
         THEN IF b < 0 THEN QuotientOfMagnitudes(a - b, b) + 1
              ELSE QuotientOfMagnitudes(a + b, b) - 1
    ELSE QuotientOfMagnitudes(a, b)

C20_Divide ==
    [][ (Fetching("Divide") /\ ValidReg(OperandA) /\ ValidReg(OperandB)
          /\ registers[OperandB] # 0) =>
            IF registers[OperandA] = MinI32 /\ registers[OperandB] = -1
            THEN /\ phase' = "panicked"
                 /\ panic' = "DivideOverflow"
                 /\ registers' = registers
            ELSE /\ phase' = "advance"
                 /\ registers' = [registers EXCEPT ![OperandA] =
                                      Quotient(registers[OperandA], registers[OperandB])]
                 /\ registers'[OperandA] \in MinI32..MaxI32 ]_vars

\* Divide IO, r1 on -7 and 2 has left -3 in IO
C20_Witness ==
    /\ phase = "advance"
    /\ bytecode = Rec("Divide", IO, 1)
    /\ RecordAt(0) = Rec("LoadAddress", IO, -7)
    /\ registers[1] = 2
    /\ registers[IO] = -3

====
